---- MODULE Spec2Model ----
(***************************************************************************)
(* Reflect-MadHacks backend: the geocode edge function                     *)
(* (supabase/functions/geocode/index.ts, with haversine.ts) and the        *)
(* express server (identity middleware, /api/me, /api/analyze,             *)
(* /api/entries, /api/distance).                                           *)
(*                                                                         *)
(* Numbers.  A JavaScript number is modelled in fixed point: angles and    *)
(* trigonometric values are integers counting 1e-8, degrees are integers   *)
(* counting 1e-6 degree, miles returned by haversine count 1e-5 mile and   *)
(* distance_miles (one decimal) counts tenths of a mile.  Products are     *)
(* split in halves of four decimal digits so that every intermediate       *)
(* value fits TLC's 32-bit integers.                               *)
(*                                                                         *)
(* Nullable values.  A column or field that may be null/undefined is a     *)
(* sequence of length at most one: <<>> is null, <<v>> is the value v.     *)
(***************************************************************************)
EXTENDS Integers, Sequences, FiniteSets, TLC

VARIABLES
  facilities,   \* public.facilities, in the order the repository returns rows
  clock,        \* logical time behind new Date()
  greqs,        \* requests received by the geocode edge function
  users,        \* public.users: set of rows [id, name, created_at, updated_at]
  dbUp,         \* whether the express server reaches its datastore
  nextUid,      \* number of identities uuidv4() has produced so far
  areqs,        \* requests received by the express server
  entries,      \* public.entries, in the order the rows were inserted
  files,        \* the temporary files in uploads/
  hav           \* a call of haversine: its arguments and what it returned

vars == <<facilities, clock, greqs, users, dbUp, nextUid, areqs, entries, files, hav>>

----------------------------------------------------------------------------
(* Bounds of the model *)

MaxFac == 3        \* rows of the facilities table
MaxGeoReq == 2     \* requests a behaviour of the facility service receives
MaxAppReq == 2     \* requests a behaviour of the express server receives

----------------------------------------------------------------------------
(* Nullable values and small helpers *)

Null == <<>>
Some(v) == <<v>>
IsNull(x) == x = <<>>
Val(x) == x[1]

Abs(x) == IF x < 0 THEN 0 - x ELSE x
Min(a, b) == IF a < b THEN a ELSE b
Max(a, b) == IF a > b THEN a ELSE b

SeqToSet(s) == {s[i] : i \in 1..Len(s)}

----------------------------------------------------------------------------
(* Fixed-point arithmetic standing for the IEEE doubles of the runtime *)

E4 == 100 * 100
ONE == E4 * E4
PI == 314159265
HALF_PI == (PI + 1) \div 2

Hi(x) == x \div E4
Lo(x) == x % E4

\* x * y = MulNat(x, y) * ONE + MulRem(x, y), for naturals x, y
MulMid(x, y) == (Hi(x) * Lo(y)) + (Lo(x) * Hi(y)) + Hi(Lo(x) * Lo(y))
MulNat(x, y) == (Hi(x) * Hi(y)) + Hi(MulMid(x, y))
MulRem(x, y) == (Lo(MulMid(x, y)) * E4) + Lo(Lo(x) * Lo(y))

FMul(x, y) ==
  IF (x < 0) = (y < 0) THEN MulNat(Abs(x), Abs(y))
  ELSE 0 - MulNat(Abs(x), Abs(y))

Sq(x) == FMul(x, x)

\* Sum of an alternating power series: term(k+2) = -term(k) * x^2 / (k (k+1))
RECURSIVE Series(_, _, _, _, _)
Series(term, x2, k, last, acc) ==
  IF k > last \/ term = 0 THEN acc
  ELSE LET next == 0 - (FMul(term, x2) \div (k * (k + 1)))
       IN Series(next, x2, k + 2, last, acc + next)

SinTaylor(x) == Series(x, Sq(x), 2, 24, x)
CosTaylor(x) == Series(ONE, Sq(x), 1, 23, ONE)

\* Math.sin, Math.cos
RECURSIVE sin(_)
sin(x) ==
  IF x < 0 THEN 0 - sin(0 - x)
  ELSE IF x > PI THEN 0 - sin(x - PI)
  ELSE IF x > HALF_PI THEN SinTaylor(PI - x)
  ELSE SinTaylor(x)

RECURSIVE cos(_)
cos(x) ==
  IF x < 0 THEN cos(0 - x)
  ELSE IF x > PI THEN 0 - cos(x - PI)
  ELSE IF x > HALF_PI THEN 0 - CosTaylor(PI - x)
  ELSE CosTaylor(x)

\* Math.sqrt on [0, 1]: the largest r with r * r <= a
RECURSIVE SqrtSearch(_, _, _)
SqrtSearch(a, lo, hi) ==
  IF lo >= hi THEN lo
  ELSE LET mid == (lo + hi + 1) \div 2
       IN IF MulNat(mid, mid) < a \/ (MulNat(mid, mid) = a /\ MulRem(mid, mid) = 0)
          THEN SqrtSearch(a, mid, hi)
          ELSE SqrtSearch(a, lo, mid - 1)

\* The number NaN: no number of the model's arithmetic is this small
NaN == 0 - (2 * ONE)

\* Math.sqrt of a negative number is NaN
sqrt(a) == IF a < 0 THEN NaN ELSE SqrtSearch(a, 0, ONE)

\* Math.atan2(y, x) for y >= 0, x >= 0: the largest angle t in [0, pi/2]
\* with sin(t) * x <= cos(t) * y
RECURSIVE AtanSearch(_, _, _, _)
AtanSearch(y, x, lo, hi) ==
  IF lo >= hi THEN lo
  ELSE LET mid == (lo + hi + 1) \div 2
       IN IF FMul(sin(mid), x) <= FMul(cos(mid), y)
          THEN AtanSearch(y, x, mid, hi)
          ELSE AtanSearch(y, x, lo, mid - 1)

atan2(y, x) == IF y = NaN \/ x = NaN THEN NaN ELSE AtanSearch(y, x, 0, HALF_PI)

----------------------------------------------------------------------------
(* haversine.ts *)

R == 39588    \* Earth radius, 3958.8 miles, in tenths of a mile

\* (deg * Math.PI) / 180, deg counting 1e-6 degree
toRad(deg) ==
  LET p == FMul(Abs(deg), PI)
      r == ((p \div 9) * 5) + (((p % 9) * 5) \div 9)
  IN IF deg < 0 THEN 0 - r ELSE r

\* Half of an angle (the double's x / 2), symmetric around zero
Half(x) == IF x < 0 THEN 0 - (Abs(x) \div 2) ELSE x \div 2

haversineFormula(lat1, lng1, lat2, lng2) ==
  LET dLat == toRad(lat2 - lat1)
      dLng == toRad(lng2 - lng1)
      a == Sq(sin(Half(dLat)))
           + FMul(FMul(cos(toRad(lat1)), cos(toRad(lat2))), Sq(sin(Half(dLng))))
      t == atan2(sqrt(a), sqrt(ONE - a))
      c == 2 * t
  IN IF t = NaN THEN NaN ELSE (R * Hi(c)) + Hi(R * Lo(c))

----------------------------------------------------------------------------
(* The places of the model, [lat, lng] in 1e-6 degree *)

Montgomery == [lat |-> 32379200, lng |-> -86307700]
Madison    == [lat |-> 43073100, lng |-> -89401200]
Birmingham == [lat |-> 33520700, lng |-> -86802500]
Hoover     == [lat |-> 33520900, lng |-> -86802500]
Mobile     == [lat |-> 30695400, lng |-> -88039900]

Places == {Montgomery, Madison, Birmingham, Hoover, Mobile}

\* The formula evaluated once for every pair of places of the model (combining
\* with the empty function makes TLC tabulate it)
HaversineTable ==
  [p \in Places \X Places |->
     haversineFormula(p[1].lat, p[1].lng, p[2].lat, p[2].lng)] @@ <<>>

haversine(lat1, lng1, lat2, lng2) ==
  HaversineTable[<<[lat |-> lat1, lng |-> lng1], [lat |-> lat2, lng |-> lng2]>>]

\* Math.round(x * 10), x counting 1e-5: the nearest integer, halves upwards
MathRound10(x) == IF x = NaN THEN NaN ELSE (x + 5000) \div E4

----------------------------------------------------------------------------
(* The facilities table *)

Regions == {"AL", "WI"}

\* index.ts: the columns the 'nearest' action filters on
booleanFilters ==
  << "telehealth", "medicaid", "sliding_scale", "private_insurance",
     "trauma_care", "co_occurring", "serves_veterans", "serves_lgbtq",
     "serves_children", "serves_young_adults", "serves_seniors",
     "cbt", "dbt", "emdr" >>

\* The capability columns the model's rows and requests range over: the first
\* and the last name of booleanFilters, and a boolean column it does not list
FlagNames == {"telehealth", "emdr", "wheelchair_access"}

\* A row: flags is the set of boolean columns that are true on it
Row(region, lat, lng, at, flags) ==
  [state |-> region, lat |-> lat, lng |-> lng, geocoded_at |-> at, flags |-> flags]

Geocoded(region, place, flags) ==
  Row(region, Some(place.lat), Some(place.lng), Some(0), flags)

RowPool ==
  { Geocoded("AL", Birmingham, {"telehealth", "emdr", "wheelchair_access"}),
    Geocoded("AL", Hoover, {"telehealth"}),
    Geocoded("AL", Mobile, {"emdr"}),
    Geocoded("WI", Madison, {"telehealth", "emdr", "wheelchair_access"}),
    Row("AL", Null, Null, Null, {"telehealth", "emdr", "wheelchair_access"}),
    Row("AL", Some(Mobile.lat), Null, Null, {"telehealth", "emdr", "wheelchair_access"}) }

FacilityId(i) == i

\* Tables of MaxFac different rows; a row's facility_id is its position
Tables ==
  { [i \in 1..MaxFac |-> [facility_id |-> FacilityId(i)] @@ f[i]] :
      f \in {g \in [1..MaxFac -> RowPool] :
               \A i, j \in 1..MaxFac : g[i] = g[j] => i = j} }

----------------------------------------------------------------------------
(* The geocoding provider, as geocodeAddress sees it *)

Addresses == {"Montgomery, AL", "Madison, WI", "Birmingham, AL"}

\* data.results[0].geometry.location for an address the provider knows
ProviderLocation(address) ==
  CASE address = "Montgomery, AL" -> Montgomery
    [] address = "Madison, WI" -> Madison
    [] OTHER -> Birmingham

\* One answer of the environment to a geocodeAddress call: whether
\* GOOGLE_GEOCODING_API_KEY is set, whether fetch resolves, the HTTP status,
\* data.status and data.error_message.  The fields a failing check never
\* reads say that the rest of the call would have succeeded.
Env(apiKey, reachable, http, status, error_message) ==
  [apiKey |-> apiKey, reachable |-> reachable, http |-> http,
   status |-> status, error_message |-> error_message]

ProviderEnvs ==
  { Env(TRUE, TRUE, 200, "OK", Null),
    Env(FALSE, TRUE, 200, "OK", Null),
    Env(TRUE, FALSE, 200, "OK", Null),
    Env(TRUE, TRUE, 500, "OK", Null),
    Env(TRUE, TRUE, 200, "REQUEST_DENIED", Null),
    Env(TRUE, TRUE, 200, "REQUEST_DENIED", Some("The provided API key is invalid.")),
    Env(TRUE, TRUE, 200, "ZERO_RESULTS", Null),
    Env(TRUE, TRUE, 200, "OVER_QUERY_LIMIT", Null),
    Env(TRUE, TRUE, 200, "INVALID_REQUEST", Null) }

\* The message of the TypeError a rejected fetch throws
FetchFailed == "error sending request"

Resolved(place, calls) ==
  [ok |-> TRUE, lat |-> Some(place.lat), lng |-> Some(place.lng),
   message |-> "", calls |-> calls]

Thrown(message, calls) ==
  [ok |-> FALSE, lat |-> Null, lng |-> Null, message |-> message, calls |-> calls]

\* Response.ok
ResOk(http) == 200 <= http /\ http <= 299

\* geocodeAddress without the check of the API key
geocodeAddressNoKeyCheck(address, env) ==
  IF ~env.reachable THEN Thrown(FetchFailed, 1)
  ELSE IF ~ResOk(env.http)
    THEN Thrown("Google Geocoding API returned HTTP " \o ToString(env.http), 1)
  ELSE IF env.status = "REQUEST_DENIED"
    THEN Thrown("Google Geocoding API request denied: "
                  \o (IF IsNull(env.error_message) THEN "unknown reason"
                      ELSE Val(env.error_message)), 1)
  ELSE IF env.status = "ZERO_RESULTS"
    THEN Thrown("ZERO_RESULTS: no location found for the given address", 1)
  ELSE IF env.status # "OK"
    THEN Thrown("Google Geocoding API status: " \o env.status, 1)
  ELSE Resolved(ProviderLocation(address), 1)

\* index.ts geocodeAddress: the coordinate, or the Error thrown; calls counts
\* the fetches made
geocodeAddress(address, env) ==
  IF ~env.apiKey THEN Thrown("GOOGLE_GEOCODING_API_KEY is not set", 0)
  ELSE IF ~env.reachable THEN Thrown(FetchFailed, 1)
  ELSE IF ~ResOk(env.http)
    THEN Thrown("Google Geocoding API returned HTTP " \o ToString(env.http), 1)
  ELSE IF env.status = "REQUEST_DENIED"
    THEN Thrown("Google Geocoding API request denied: "
                  \o (IF IsNull(env.error_message) THEN "unknown reason"
                      ELSE Val(env.error_message)), 1)
  ELSE IF env.status = "ZERO_RESULTS"
    THEN Thrown("ZERO_RESULTS: no location found for the given address", 1)
  ELSE IF env.status # "OK"
    THEN Thrown("Google Geocoding API status: " \o env.status, 1)
  ELSE Resolved(ProviderLocation(address), 1)

----------------------------------------------------------------------------
(* Requests and responses of the edge function *)

NoFlags == [k \in FlagNames |-> "absent"]

Body(action, facility_id, address, query, state, limit, flags) ==
  [action |-> action, facility_id |-> facility_id, address |-> address,
   query |-> query, state |-> state, limit |-> limit, flags |-> flags]

\* "" stands for a missing or empty string: the handler only tests !x
FacilityBodies ==
  { Body("facility", Some(i), "Montgomery, AL", "", "", Null, NoFlags) :
      i \in 1..(MaxFac + 1) }
  \cup { Body("facility", Some(1), "Madison, WI", "", "", Null, NoFlags),
         Body("facility", Null, "Montgomery, AL", "", "", Null, NoFlags),
         Body("facility", Some(1), "", "", "", Null, NoFlags) }

UserBodies ==
  { Body("user", Null, "", query, "", Null, NoFlags) : query \in {""} \cup Addresses }
  \cup { Body("lookup", Null, "", "Madison, WI", "", Null, NoFlags) }

FlagSettings ==
  { f \in [FlagNames -> {"absent", "false", "true"}] :
      f["emdr"] # "false" /\ f["wheelchair_access"] # "false" }

Limits == {Null} \cup {Some(n) : n \in (0 - 1)..MaxFac}

NearestBodies ==
  { Body("nearest", Null, "", query, state, limit, flags) :
      query \in {"Montgomery, AL", "Madison, WI"}, state \in Regions,
      limit \in Limits, flags \in FlagSettings }
  \cup { Body("nearest", Null, "", "", "AL", Null, NoFlags),
         Body("nearest", Null, "", "Madison, WI", "", Null, NoFlags) }

Response(status, error, lat, lng, cached, user_coords, results) ==
  [status |-> status, error |-> error, lat |-> lat, lng |-> lng,
   cached |-> cached, user_coords |-> user_coords, results |-> results]

ErrorResponse(status, error) == Response(status, error, Null, Null, Null, Null, <<>>)

\* A request in the handler: pc is the await it is suspended at ("done" once
\* answered), coords what geocodeAddress returned, env the provider's answer it
\* got, existing the row its lookup read, calls the fetches it made, wrote
\* whether its update reached the table, after the requests that were already
\* answered when it arrived
Request(body, pc, resp) ==
  [body |-> body, pc |-> pc, resp |-> resp, coords |-> Null, env |-> Null,
   existing |-> Null, calls |-> 0, wrote |-> FALSE, after |-> {}]

Answered(r, response) == [r EXCEPT !.pc = "done", !.resp = Some(response)]

----------------------------------------------------------------------------
(* The datastore calls of the edge function *)

DbFault == "upstream connect error"
NoRows == "JSON object requested, multiple (or no) rows returned"

RECURSIVE Pick(_, _)
\* The rows of table t at the positions keep, in the table's order
Pick(t, keep) ==
  IF t = <<>> THEN <<>>
  ELSE Pick(SubSeq(t, 1, Len(t) - 1), keep)
         \o (IF Len(t) \in keep THEN <<t[Len(t)]>> ELSE <<>>)

HasFacilityId(row, id) == row.facility_id = id

\* .from("facilities").select("lat, lng").eq("facility_id", id).single()
single(rows, fault) ==
  IF fault THEN [ok |-> FALSE, message |-> DbFault, row |-> Null]
  ELSE IF Len(rows) # 1 THEN [ok |-> FALSE, message |-> NoRows, row |-> Null]
  ELSE [ok |-> TRUE, message |-> "", row |-> Some(rows[1])]

\* UpdateCoords that leaves geocoded_at as it was
UpdateLatLngOnly(t, id, lat, lng, at) ==
  [i \in DOMAIN t |->
     IF t[i].facility_id = id
     THEN [t[i] EXCEPT !.lat = lat, !.lng = lng]
     ELSE t[i]]

\* UpdateCoords that stores the timestamp but no coordinate
UpdateTimestampOnly(t, id, lat, lng, at) ==
  [i \in DOMAIN t |->
     IF t[i].facility_id = id
     THEN [t[i] EXCEPT !.geocoded_at = at]
     ELSE t[i]]

\* .update({lat, lng, geocoded_at}).eq("facility_id", id)
UpdateCoords(t, id, lat, lng, at) ==
  [i \in DOMAIN t |->
     IF t[i].facility_id = id
     THEN [t[i] EXCEPT !.lat = lat, !.lng = lng, !.geocoded_at = at]
     ELSE t[i]]

\* body[key] for a key of booleanFilters
BodyFlag(body, key) ==
  IF key \in DOMAIN body.flags THEN body.flags[key] ELSE "absent"

\* The keys the loop over booleanFilters turns into q.eq(key, true)
AppliedFilters(body) ==
  {booleanFilters[j] : j \in {k \in 1..Len(booleanFilters) :
                                 BodyFlag(body, booleanFilters[k]) = "true"}}

\* Matches with the region filter left out
MatchesAnyState(row, body) ==
  /\ ~IsNull(row.lat)
  /\ ~IsNull(row.lng)
  /\ AppliedFilters(body) \subseteq row.flags

\* .eq("state", state).not("lat", "is", null).not("lng", "is", null)
\* and every q.eq(key, true)
Matches(row, body) ==
  /\ row.state = body.state
  /\ ~IsNull(row.lat)
  /\ ~IsNull(row.lng)
  /\ AppliedFilters(body) \subseteq row.flags

----------------------------------------------------------------------------
(* The 'nearest' computation on the rows the query returned *)

WithDistance(row, userCoords) ==
  [distance_miles |->
     MathRound10(haversine(userCoords.lat, userCoords.lng, Val(row.lat), Val(row.lng)))]
  @@ row

RECURSIVE Map(_, _)
Map(rows, userCoords) ==
  IF rows = <<>> THEN <<>>
  ELSE <<WithDistance(Head(rows), userCoords)>> \o Map(Tail(rows), userCoords)

\* The comparator (a, b) => a.distance_miles - b.distance_miles
Compare(a, b) == a.distance_miles - b.distance_miles

RECURSIVE InsertBeforeEqual(_, _)
\* InsertSorted of a sort that is not stable: x placed before its equals
InsertBeforeEqual(sorted, x) ==
  IF sorted = <<>> THEN <<x>>
  ELSE IF Compare(Head(sorted), x) < 0
    THEN <<Head(sorted)>> \o InsertBeforeEqual(Tail(sorted), x)
    ELSE <<x>> \o sorted

RECURSIVE InsertSorted(_, _)
\* x placed behind every element that does not compare greater than it
InsertSorted(sorted, x) ==
  IF sorted = <<>> THEN <<x>>
  ELSE IF Compare(Head(sorted), x) <= 0
    THEN <<Head(sorted)>> \o InsertSorted(Tail(sorted), x)
    ELSE <<x>> \o sorted

RECURSIVE SortFrom(_, _)
SortFrom(sorted, rest) ==
  IF rest = <<>> THEN sorted
  ELSE SortFrom(InsertSorted(sorted, Head(rest)), Tail(rest))

\* Array.prototype.sort with Compare: a stable sort
sort(s) == SortFrom(<<>>, s)

\* slice that stops one element early
sliceShort(s, end) ==
  LET e == IF end < 0 THEN Max(Len(s) + end, 0) ELSE Min(end, Len(s))
  IN SubSeq(s, 1, e - 1)

\* Array.prototype.slice(0, end)
slice(s, end) ==
  LET e == IF end < 0 THEN Max(Len(s) + end, 0) ELSE Min(end, Len(s))
  IN SubSeq(s, 1, e)

DefaultLimit == 30

\* limit || 30
LimitOr30(limit) ==
  IF IsNull(limit) \/ Val(limit) = 0 THEN DefaultLimit ELSE Val(limit)

withDistance(rows, userCoords, limit) ==
  slice(sort(Map(rows, userCoords)), LimitOr30(limit))

----------------------------------------------------------------------------
(* The Deno.serve handler, one action per await *)

\* From req.json() to the first await: validation, unknown action
Accept(b) ==
  IF b.action = "facility" THEN
    IF IsNull(b.facility_id) \/ b.address = ""
    THEN Request(b, "done", Some(ErrorResponse(400, "facility_id and address are required")))
    ELSE Request(b, "lookup", Null)
  ELSE IF b.action = "user" THEN
    IF b.query = ""
    THEN Request(b, "done", Some(ErrorResponse(400, "query is required")))
    ELSE Request(b, "geocode", Null)
  ELSE IF b.action = "nearest" THEN
    IF b.query = "" \/ b.state = ""
    THEN Request(b, "done", Some(ErrorResponse(400, "query and state are required")))
    ELSE Request(b, "geocode", Null)
  ELSE Request(b, "done", Some(ErrorResponse(400, "Unknown action: " \o b.action)))

AppUnchanged == UNCHANGED <<users, dbUp, nextUid, areqs, entries, files, hav>>

\* A request arrives while others may be in flight
Receive(b) ==
  /\ Len(greqs) < MaxGeoReq
  /\ greqs' = Append(greqs, [Accept(b) EXCEPT
                              !.after = {i \in DOMAIN greqs : greqs[i].pc = "done"}])
  /\ UNCHANGED <<facilities, clock>>
  /\ AppUnchanged

\* The first request arrives
Serve(b) ==
  /\ greqs = <<>>
  /\ greqs' = <<Accept(b)>>
  /\ UNCHANGED <<facilities, clock>>
  /\ AppUnchanged

\* AfterLookup that takes a row with either column set for a cache hit
AfterLookupEitherColumn(r, a) ==
  IF ~a.ok
  THEN Answered(r, ErrorResponse(404, "Facility lookup failed: " \o a.message))
  ELSE LET existing == Val(a.row)
           seen == [r EXCEPT !.existing = Some([lat |-> existing.lat, lng |-> existing.lng])]
       IN IF ~IsNull(existing.lat) \/ ~IsNull(existing.lng)
          THEN Answered(seen, Response(200, "", existing.lat, existing.lng,
                                       Some(TRUE), Null, <<>>))
          ELSE [seen EXCEPT !.pc = "geocode"]

\* 'facility': the cache check
AfterLookup(r, a) ==
  IF ~a.ok
  THEN Answered(r, ErrorResponse(404, "Facility lookup failed: " \o a.message))
  ELSE LET existing == Val(a.row)
           seen == [r EXCEPT !.existing = Some([lat |-> existing.lat, lng |-> existing.lng])]
       IN IF ~IsNull(existing.lat) /\ ~IsNull(existing.lng)
          THEN Answered(seen, Response(200, "", existing.lat, existing.lng,
                                       Some(TRUE), Null, <<>>))
          ELSE [seen EXCEPT !.pc = "geocode"]

FacilityLookup(i) ==
  /\ i \in DOMAIN greqs
  /\ greqs[i].pc = "lookup"
  /\ \E fault \in BOOLEAN :
       LET r == greqs[i]
           rows == Pick(facilities, {k \in DOMAIN facilities :
                                       HasFacilityId(facilities[k], Val(r.body.facility_id))})
       IN greqs' = [greqs EXCEPT ![i] = AfterLookup(r, single(rows, fault))]
  /\ UNCHANGED <<facilities, clock>>
  /\ AppUnchanged

\* await geocodeAddress(...) of the three actions; a throw ends in the catch
AfterGeocode(r, env) ==
  LET address == IF r.body.action = "facility" THEN r.body.address ELSE r.body.query
      out == geocodeAddress(address, env)
      called == [r EXCEPT !.env = Some(env), !.calls = @ + out.calls]
      got == [called EXCEPT !.coords = Some([lat |-> Val(out.lat), lng |-> Val(out.lng)])]
  IN IF ~out.ok THEN Answered(called, ErrorResponse(500, out.message))
     ELSE IF r.body.action = "user"
       THEN Answered(got, Response(200, "", out.lat, out.lng, Null, Null, <<>>))
     ELSE IF r.body.action = "facility" THEN [got EXCEPT !.pc = "update"]
     ELSE [got EXCEPT !.pc = "query"]

Geocode(i) ==
  /\ i \in DOMAIN greqs
  /\ greqs[i].pc = "geocode"
  /\ \E env \in ProviderEnvs : greqs' = [greqs EXCEPT ![i] = AfterGeocode(greqs[i], env)]
  /\ UNCHANGED <<facilities, clock>>
  /\ AppUnchanged

\* 'facility': the update that caches the coordinate, and the answer
FacilityUpdate(i) ==
  /\ i \in DOMAIN greqs
  /\ greqs[i].pc = "update"
  /\ LET r == greqs[i]
         coords == Val(r.coords)
     IN \/ /\ greqs' = [greqs EXCEPT ![i] =
                 Answered(r, ErrorResponse(500, "Failed to cache coordinates: " \o DbFault))]
           /\ UNCHANGED <<facilities, clock>>
        \/ /\ facilities' = UpdateCoords(facilities, Val(r.body.facility_id),
                                         Some(coords.lat), Some(coords.lng), Some(clock))
           /\ clock' = clock + 1
           /\ greqs' = [greqs EXCEPT ![i] =
                 Answered([r EXCEPT !.wrote = TRUE],
                          Response(200, "", Some(coords.lat), Some(coords.lng),
                                   Some(FALSE), Null, <<>>))]
  /\ AppUnchanged

\* 'nearest': the filtered query, the distances, the answer
AfterQuery(r, t, fault) ==
  IF fault THEN Answered(r, ErrorResponse(500, "Database query failed: " \o DbFault))
  ELSE Answered(r, Response(200, "", Null, Null, Null, r.coords,
                  withDistance(Pick(t, {k \in DOMAIN t : Matches(t[k], r.body)}),
                               Val(r.coords), r.body.limit)))

\* A 'nearest' handler that stores the coordinate of the query in the first
\* facility row
NearestQueryCaching(i) ==
  /\ i \in DOMAIN greqs
  /\ greqs[i].pc = "query"
  /\ \E fault \in BOOLEAN : greqs' = [greqs EXCEPT ![i] = AfterQuery(greqs[i], facilities, fault)]
  /\ facilities' = UpdateCoords(facilities, FacilityId(1), Some(Val(greqs[i].coords).lat),
                                Some(Val(greqs[i].coords).lng), Some(clock))
  /\ UNCHANGED clock
  /\ AppUnchanged

NearestQuery(i) ==
  /\ i \in DOMAIN greqs
  /\ greqs[i].pc = "query"
  /\ \E fault \in BOOLEAN : greqs' = [greqs EXCEPT ![i] = AfterQuery(greqs[i], facilities, fault)]
  /\ UNCHANGED <<facilities, clock>>
  /\ AppUnchanged

----------------------------------------------------------------------------
(* Specifications of the edge function *)

AppIdle ==
  /\ users = {}
  /\ dbUp = TRUE
  /\ nextUid = 0
  /\ areqs = <<>>
  /\ entries = <<>>
  /\ files = {}
  /\ hav = Null

\* One 'nearest' request against any table
InitNearest ==
  /\ facilities \in Tables
  /\ clock = 1
  /\ greqs = <<>>
  /\ AppIdle

NextNearest ==
  \/ \E b \in NearestBodies : Serve(b)
  \/ Geocode(1)
  \/ NearestQuery(1)

SpecNearest == InitNearest /\ [][NextNearest]_vars

\* 'facility' requests, possibly overlapping, against a table that holds a
\* row never geocoded, a geocoded row and a row with a lat but no lng
CacheRow(i) ==
  [facility_id |-> FacilityId(i)] @@
  (CASE i % 3 = 1 -> Row("AL", Null, Null, Null, {"telehealth"})
     [] i % 3 = 2 -> Geocoded("AL", Birmingham, {"telehealth", "emdr"})
     [] OTHER -> Row("AL", Some(Mobile.lat), Null, Null, {"emdr"}))

InitFacility ==
  /\ facilities = [i \in 1..MaxFac |-> CacheRow(i)]
  /\ clock = 1
  /\ greqs = <<>>
  /\ AppIdle

NextFacility ==
  \/ \E b \in FacilityBodies : Receive(b)
  \/ \E i \in 1..MaxGeoReq : FacilityLookup(i)
  \/ \E i \in 1..MaxGeoReq : Geocode(i)
  \/ \E i \in 1..MaxGeoReq : FacilityUpdate(i)

SpecFacility == InitFacility /\ [][NextFacility]_vars

\* 'user' requests and requests of an unknown action
InitUser ==
  /\ facilities = [i \in 1..MaxFac |-> CacheRow(i)]
  /\ clock = 1
  /\ greqs = <<>>
  /\ AppIdle

NextUser ==
  \/ \E b \in UserBodies : Receive(b)
  \/ \E i \in 1..MaxGeoReq : Geocode(i)

SpecUser == InitUser /\ [][NextUser]_vars

\* 'user' and 'nearest' requests, possibly overlapping and repeating a query,
\* against the table of InitFacility
QueryBodies ==
  UserBodies
  \cup { Body("nearest", Null, "", "Montgomery, AL", "AL", Null, NoFlags),
         Body("nearest", Null, "", "", "AL", Null, NoFlags),
         Body("nearest", Null, "", "Madison, WI", "", Null, NoFlags) }

InitQueries == InitFacility

NextQueries ==
  \/ \E b \in QueryBodies : Receive(b)
  \/ \E i \in 1..MaxGeoReq : Geocode(i)
  \/ \E i \in 1..MaxGeoReq : NearestQuery(i)

SpecQueries == InitQueries /\ [][NextQueries]_vars

----------------------------------------------------------------------------
(* The express server: requests, identity middleware and /api/me *)

\* A string is the sequence of its characters; a JSON value has a type
Str(chars) == [type |-> "string", chars |-> chars]
Undefined == [type |-> "undefined", chars |-> <<>>]
Number5 == [type |-> "number", chars |-> <<>>]

RECURSIVE TrimStart(_)
TrimStart(cs) ==
  IF cs # <<>> /\ Head(cs) = " " THEN TrimStart(Tail(cs)) ELSE cs

RECURSIVE TrimEnd(_)
TrimEnd(cs) ==
  IF cs # <<>> /\ cs[Len(cs)] = " " THEN TrimEnd(SubSeq(cs, 1, Len(cs) - 1)) ELSE cs

\* String.prototype.trim
trim(cs) == TrimEnd(TrimStart(cs))

\* req.body.name of the model's POST requests
NameInputs ==
  { Undefined, Number5, Str(<<" ">>), Str(<<" ", "A", "l", " ">>) }

\* uuidv4 that returns the same identity on every call
uuidFixed(n) == 1

\* uuidv4(): an identity no earlier call returned
uuidv4(n) == n + 1

\* A uid cookie no response ever set
ForgedUid == 0

UserRow(id, name, created_at, updated_at) ==
  [id |-> id, name |-> name, created_at |-> created_at, updated_at |-> updated_at]

Profile(id, name, created_at) == [id |-> id, name |-> name, created_at |-> created_at]

\* A request to the express server: cookie is req.cookies.uid, name is
\* req.body.name, userId is req.userId, setCookie the uid cookie of the
\* response, dbAtRoute whether the route's datastore call was served, after
\* the requests already answered when it arrived.  origin and destination are
\* req.query of /api/distance ("" when missing), image whether the multipart
\* body of /api/analyze carries the image field, filePath is req.file.path.
\* matrix, geoOrigin and geoDest are the three fetches of /api/distance
\* ("idle" before the call, "inflight", "done"); driving, elementStatus,
\* originCoords and destCoords are the locals of that handler, answers what
\* each of the three fetches came to ("" while it has not completed); text is
\* the transcription; fetches counts the outbound calls made for the request,
\* rows the datastore rows it inserted and seen the rows the entries table
\* held when /api/entries read it
AppRequest(method, cookie, name, after) ==
  [method |-> method, path |-> "/api/me", cookie |-> cookie, name |-> name,
   pc |-> "middleware", userId |-> Null, setCookie |-> Null,
   status |-> 0, json |-> Null, error |-> "", dbAtRoute |-> Null, after |-> after,
   origin |-> "", destination |-> "", image |-> FALSE, filePath |-> Null,
   matrix |-> "idle", geoOrigin |-> "idle", geoDest |-> "idle",
   driving |-> Null, elementStatus |-> Null, originCoords |-> Null,
   destCoords |-> Null, answers |-> [matrix |-> "", origin |-> "", dest |-> ""],
   text |-> Null, fetches |-> 0, rows |-> 0, seen |-> 0]

GeoUnchanged == UNCHANGED <<facilities, greqs, hav>>

JournalUnchanged == UNCHANGED <<entries, files>>

\* The uid cookies the responses so far have set
IssuedCookies == {areqs[i].setCookie : i \in {k \in DOMAIN areqs : areqs[k].pc = "done"}} \ {Null}

Arrive(method, cookie, name) ==
  /\ Len(areqs) < MaxAppReq
  /\ cookie \in {Null, Some(ForgedUid)} \cup IssuedCookies
  /\ areqs' = Append(areqs, AppRequest(method, cookie, name,
                       {i \in DOMAIN areqs : areqs[i].pc = "done"}))
  /\ UNCHANGED <<users, dbUp, nextUid, clock>>
  /\ JournalUnchanged
  /\ GeoUnchanged

\* supabase.from('users').insert({ id: uid }): the error, if any, is dropped
Insert(table, up, uid, now) ==
  IF up /\ ~(\E row \in table : row.id = uid)
  THEN table \cup {UserRow(uid, Null, Some(now), Null)}
  ELSE table

\* The route's synchronous start after next(): POST /api/me validates name,
\* /api/analyze hands over to multer, /api/distance validates the query and
\* issues the fetch of the Distance Matrix
AfterNext(r) ==
  IF r.path = "/api/me" THEN
    IF r.method = "POST"
         /\ (r.name.type # "string" \/ r.name.chars = <<>> \/ trim(r.name.chars) = <<>>)
    THEN [r EXCEPT !.pc = "done", !.status = 400, !.error = "Name is required."]
    ELSE [r EXCEPT !.pc = "route"]
  ELSE IF r.path = "/api/analyze" THEN [r EXCEPT !.pc = "upload"]
  ELSE IF r.path = "/api/entries" THEN [r EXCEPT !.pc = "select"]
  ELSE IF r.origin = "" \/ r.destination = ""
    THEN [r EXCEPT !.pc = "done", !.status = 400,
                   !.error = "origin and destination are required"]
  ELSE [r EXCEPT !.pc = "matrix", !.matrix = "inflight", !.fetches = @ + 1]

\* Identity middleware: read or create the uid cookie, insert the user row
Middleware(i) ==
  /\ i \in DOMAIN areqs
  /\ areqs[i].pc = "middleware"
  /\ LET r == areqs[i] IN
     IF IsNull(r.cookie)
     THEN LET uid == uuidv4(nextUid) IN
          /\ nextUid' = nextUid + 1
          /\ users' = Insert(users, dbUp, uid, clock)
          /\ clock' = clock + 1
          /\ areqs' = [areqs EXCEPT ![i] =
                AfterNext([r EXCEPT !.userId = Some(uid), !.setCookie = Some(uid),
                                    !.rows = IF users' # users THEN 1 ELSE 0])]
     ELSE /\ areqs' = [areqs EXCEPT ![i] = AfterNext([r EXCEPT !.userId = r.cookie])]
          /\ UNCHANGED <<users, nextUid, clock>>
  /\ UNCHANGED dbUp
  /\ JournalUnchanged
  /\ GeoUnchanged

\* .from('users').select('id, name, created_at').eq('id', id).single()
SingleUser(table, up, id) ==
  LET rows == {row \in table : row.id = id}
  IN IF up /\ Cardinality(rows) = 1
     THEN Some(CHOOSE row \in rows : TRUE)
     ELSE Null

Reply(r, up, profile) ==
  [r EXCEPT !.pc = "done", !.status = 200, !.json = Some(profile), !.dbAtRoute = Some(up)]

\* app.get('/api/me')
GetMe(i) ==
  /\ i \in DOMAIN areqs
  /\ areqs[i].pc = "route"
  /\ areqs[i].method = "GET"
  /\ LET r == areqs[i]
         id == Val(r.userId)
         data == SingleUser(users, dbUp, id)
     IN areqs' = [areqs EXCEPT ![i] =
          IF IsNull(data) THEN Reply(r, dbUp, Profile(id, Null, Null))
          ELSE Reply(r, dbUp, Profile(id, Val(data).name, Val(data).created_at))]
  /\ UNCHANGED <<users, dbUp, nextUid, clock>>
  /\ JournalUnchanged
  /\ GeoUnchanged

\* .update({ name, updated_at }).eq('id', id): the rows of another id stay
Update(table, up, id, name, now) ==
  IF up
  THEN {IF row.id = id THEN [row EXCEPT !.name = Some(name), !.updated_at = Some(now)]
        ELSE row : row \in table}
  ELSE table

\* app.post('/api/me'), after the validation
PostMe(i) ==
  /\ i \in DOMAIN areqs
  /\ areqs[i].pc = "route"
  /\ areqs[i].method = "POST"
  /\ LET r == areqs[i]
         id == Val(r.userId)
         name == trim(r.name.chars)
         updated == Update(users, dbUp, id, name, clock)
         data == SingleUser(updated, dbUp, id)
     IN /\ users' = updated
        /\ areqs' = [areqs EXCEPT ![i] =
             IF IsNull(data) THEN Reply(r, dbUp, Profile(id, Some(name), Null))
             ELSE Reply(r, dbUp, Profile(id, Val(data).name, Val(data).created_at))]
  /\ clock' = clock + 1
  /\ UNCHANGED <<dbUp, nextUid>>
  /\ JournalUnchanged
  /\ GeoUnchanged

\* The datastore becomes unreachable, or reachable again
DbToggle ==
  /\ dbUp' = ~dbUp
  /\ UNCHANGED <<users, nextUid, areqs, clock>>
  /\ JournalUnchanged
  /\ GeoUnchanged

InitApp ==
  /\ facilities = <<>>
  /\ clock = 1
  /\ greqs = <<>>
  /\ users = {}
  /\ dbUp \in BOOLEAN
  /\ nextUid = 0
  /\ areqs = <<>>
  /\ entries = <<>>
  /\ files = {}
  /\ hav = Null

NextApp ==
  \/ \E cookie \in {Null} \cup {Some(u) : u \in 0..MaxAppReq} :
       \/ Arrive("GET", cookie, Undefined)
       \/ \E name \in NameInputs : Arrive("POST", cookie, name)
  \/ \E i \in 1..MaxAppReq : Middleware(i)
  \/ \E i \in 1..MaxAppReq : GetMe(i)
  \/ \E i \in 1..MaxAppReq : PostMe(i)
  \/ DbToggle

SpecApp == InitApp /\ [][NextApp]_vars

----------------------------------------------------------------------------
(* The express server: /api/distance *)

DistanceRequest(cookie, origin, destination) ==
  [AppRequest("GET", cookie, Undefined, {}) EXCEPT
     !.path = "/api/distance", !.origin = origin, !.destination = destination]

\* req.query.origin and req.query.destination of the model's requests
Origins == {"", "Montgomery, AL", "Madison, WI"}
Destinations == {"", "Montgomery, AL", "Birmingham, AL"}

\* What a fetch followed by .json() comes to: the fetch rejects, the body is
\* not JSON, or the body parses
FetchBodies == {"rejected", "not json", "json"}

Threw(body) == body \in {"rejected", "not json"}

ThrownMessage(body) ==
  IF body = "rejected" THEN "fetch failed" ELSE "Unexpected token < in JSON at position 0"

\* matrixData.rows?.[0]?.elements?.[0]: no element, or an element with its
\* status; only an element of status OK carries distance and duration
Element(status) ==
  [status |-> status,
   distance |-> IF status = "OK" THEN Some("12.4 mi") ELSE Null,
   duration |-> IF status = "OK" THEN Some("18 mins") ELSE Null]

MatrixAnswers ==
  { [body |-> "rejected", element |-> Null],
    [body |-> "not json", element |-> Null],
    [body |-> "json", element |-> Null],
    [body |-> "json", element |-> Some(Element("OK"))],
    [body |-> "json", element |-> Some(Element("ZERO_RESULTS"))],
    [body |-> "json", element |-> Some(Element("NOT_FOUND"))] }

\* d.results?.[0]?.geometry?.location of a body that parses: found or not
GeocodeAnswers ==
  { [body |-> "rejected", found |-> FALSE],
    [body |-> "not json", found |-> FALSE],
    [body |-> "json", found |-> FALSE],
    [body |-> "json", found |-> TRUE] }

\* The catch of the handler
DistanceFailed(r, message) ==
  [r EXCEPT !.pc = "done", !.status = 500, !.error = message]

\* The handler that treats an element status other than OK as an error
AfterMatrixStatusThrows(r, answer) ==
  LET landed == [r EXCEPT !.matrix = "done", !.answers.matrix = answer.body]
  IN IF Threw(answer.body) THEN DistanceFailed(landed, ThrownMessage(answer.body))
     ELSE IF IsNull(answer.element) \/ Val(answer.element).status # "OK"
       THEN DistanceFailed(landed, "no route")
     ELSE [landed EXCEPT
             !.elementStatus = Some("OK"),
             !.driving = Some([distance |-> Val(Val(answer.element).distance),
                               duration |-> Val(Val(answer.element).duration)]),
             !.pc = "geocodes", !.geoOrigin = "inflight", !.geoDest = "inflight",
             !.fetches = @ + 2]

\* From the await of the Distance Matrix fetch to Promise.all: status,
\* driving_distance, driving_duration, then both geocode calls are issued
AfterMatrix(r, answer) ==
  LET landed == [r EXCEPT !.matrix = "done", !.answers.matrix = answer.body]
  IN IF Threw(answer.body) THEN DistanceFailed(landed, ThrownMessage(answer.body))
     ELSE LET status == IF IsNull(answer.element) THEN Null
                        ELSE Some(Val(answer.element).status)
          IN [landed EXCEPT
                !.elementStatus = status,
                !.driving = IF status = Some("OK")
                            THEN Some([distance |-> Val(Val(answer.element).distance),
                                       duration |-> Val(Val(answer.element).duration)])
                            ELSE Null,
                !.pc = "geocodes", !.geoOrigin = "inflight", !.geoDest = "inflight",
                !.fetches = @ + 2]

\* geocode that answers null where the fetch or the parse throws
geocodeSwallowing(address, answer) ==
  IF answer.body = "json" /\ answer.found
  THEN [thrown |-> FALSE, message |-> "", loc |-> Some(ProviderLocation(address))]
  ELSE [thrown |-> FALSE, message |-> "", loc |-> Null]

\* The handler's geocode(address): the location, null where the body has no
\* result, or the exception of fetch / r.json()
geocode(address, answer) ==
  IF Threw(answer.body)
  THEN [thrown |-> TRUE, message |-> ThrownMessage(answer.body), loc |-> Null]
  ELSE IF answer.found
    THEN [thrown |-> FALSE, message |-> "", loc |-> Some(ProviderLocation(address))]
  ELSE [thrown |-> FALSE, message |-> "", loc |-> Null]

\* The handler's own haversine: the operations of haversine.ts in the same
\* order (R * 2 * x and R * (2 * x) are the same double)
haversineLocal(lat1, lng1, lat2, lng2) == haversine(lat1, lng1, lat2, lng2)

\* JSON.stringify of a number: NaN becomes null
JsonNumber(x) == IF x = NaN THEN Null ELSE Some(x)

\* After Promise.all: straight_miles and res.json
Joined(r) ==
  LET straight_miles ==
        IF ~IsNull(r.originCoords) /\ ~IsNull(r.destCoords)
        THEN JsonNumber(MathRound10(
               haversineLocal(Val(r.originCoords).lat, Val(r.originCoords).lng,
                              Val(r.destCoords).lat, Val(r.destCoords).lng)))
        ELSE Null
  IN [r EXCEPT
        !.pc = "done", !.status = 200,
        !.json = Some([driving_distance |-> IF IsNull(r.driving) THEN Null
                                            ELSE Some(Val(r.driving).distance),
                       driving_duration |-> IF IsNull(r.driving) THEN Null
                                            ELSE Some(Val(r.driving).duration),
                       straight_miles |-> straight_miles,
                       status |-> r.elementStatus])]

\* One of the two geocode promises settles.  Promise.all rejects with the
\* first rejection, while the other call may still be in flight, and
\* resolves when both have resolved
AfterGeocodeCall(r, which, answer) ==
  LET out == geocode(IF which = "origin" THEN r.origin ELSE r.destination, answer)
      landed == IF which = "origin"
                THEN [r EXCEPT !.geoOrigin = "done", !.answers.origin = answer.body,
                               !.originCoords = out.loc]
                ELSE [r EXCEPT !.geoDest = "done", !.answers.dest = answer.body,
                               !.destCoords = out.loc]
  IN IF r.pc # "geocodes" THEN landed
     ELSE IF out.thrown THEN DistanceFailed(landed, out.message)
     ELSE IF landed.geoOrigin = "done" /\ landed.geoDest = "done" THEN Joined(landed)
     ELSE landed

AppTablesUnchanged == UNCHANGED <<users, dbUp, nextUid, clock, entries, files>>

\* A /api/distance request arrives at an idle server
Lookup(cookie, origin, destination) ==
  /\ areqs = <<>>
  /\ areqs' = <<DistanceRequest(cookie, origin, destination)>>
  /\ AppTablesUnchanged
  /\ GeoUnchanged

DistanceMatrix(i) ==
  /\ i \in DOMAIN areqs
  /\ areqs[i].pc = "matrix"
  /\ \E answer \in MatrixAnswers :
       areqs' = [areqs EXCEPT ![i] = AfterMatrix(areqs[i], answer)]
  /\ AppTablesUnchanged
  /\ GeoUnchanged

DistanceGeocode(i, which) ==
  /\ i \in DOMAIN areqs
  /\ (IF which = "origin" THEN areqs[i].geoOrigin ELSE areqs[i].geoDest) = "inflight"
  /\ \E answer \in GeocodeAnswers :
       areqs' = [areqs EXCEPT ![i] = AfterGeocodeCall(areqs[i], which, answer)]
  /\ AppTablesUnchanged
  /\ GeoUnchanged

InitDistance == InitApp

NextDistance ==
  \/ \E cookie \in {Null, Some(ForgedUid)}, origin \in Origins, destination \in Destinations :
       Lookup(cookie, origin, destination)
  \/ Middleware(1)
  \/ DistanceMatrix(1)
  \/ DistanceGeocode(1, "origin")
  \/ DistanceGeocode(1, "dest")

SpecDistance == InitDistance /\ [][NextDistance]_vars

----------------------------------------------------------------------------
(* The express server: /api/analyze and /api/entries *)

AnalyzeRequest(cookie, image) ==
  [AppRequest("POST", cookie, Undefined, {}) EXCEPT !.path = "/api/analyze", !.image = image]

EntriesRequest(cookie) ==
  [AppRequest("GET", cookie, Undefined, {}) EXCEPT !.path = "/api/entries"]

\* A request arrives; its uid cookie, if any, is forged, was set by an earlier
\* response or belongs to an identity created before
Enter(r) ==
  /\ Len(areqs) < MaxAppReq
  /\ r.cookie \in {Null, Some(ForgedUid)} \cup IssuedCookies
                    \cup {Some(row.id) : row \in users}
  /\ areqs' = Append(areqs, [r EXCEPT !.after = {i \in DOMAIN areqs : areqs[i].pc = "done"}])
  /\ UNCHANGED <<users, dbUp, nextUid, clock>>
  /\ JournalUnchanged
  /\ GeoUnchanged

\* req.file.path: multer names the file of each upload anew
FilePath(i) == i

\* response.choices[0].message.content
Transcript == "Dear diary"

EntryRow(id, text, user_id, created_at) ==
  [id |-> id, text |-> text, user_id |-> user_id, created_at |-> created_at]

\* upload.single('image') and the handler up to the call of the model: the
\* file is stored, read, and the transcription requested
Upload(i) ==
  /\ i \in DOMAIN areqs
  /\ areqs[i].pc = "upload"
  /\ LET r == areqs[i] IN
     IF ~r.image
     THEN /\ areqs' = [areqs EXCEPT ![i] =
                [r EXCEPT !.pc = "done", !.status = 400, !.error = "No image uploaded."]]
          /\ UNCHANGED files
     ELSE /\ files' = files \cup {FilePath(i)}
          /\ areqs' = [areqs EXCEPT ![i] =
                [r EXCEPT !.pc = "transcribe", !.filePath = Some(FilePath(i)),
                          !.fetches = @ + 1]]
  /\ UNCHANGED <<users, dbUp, nextUid, clock, entries>>
  /\ GeoUnchanged

\* A handler that removes the file only after a 200
FinallyAfterSuccess(fs, r) ==
  IF r.status = 200 THEN fs \ {Val(r.filePath)} ELSE fs

\* finally { fs.unlinkSync(filePath) }
Finally(fs, r) == fs \ {Val(r.filePath)}

AnalyzeFailed(r, message) == [r EXCEPT !.pc = "done", !.status = 500, !.error = message]

\* await openai.chat.completions.create(...): a throw goes to catch and finally
Transcribe(i) ==
  /\ i \in DOMAIN areqs
  /\ areqs[i].pc = "transcribe"
  /\ LET r == areqs[i] IN
     \/ /\ areqs' = [areqs EXCEPT ![i] = AnalyzeFailed(r, "OpenAI request failed.")]
        /\ files' = Finally(files, AnalyzeFailed(r, "OpenAI request failed."))
     \/ /\ areqs' = [areqs EXCEPT ![i] = [r EXCEPT !.pc = "insert", !.text = Some(Transcript)]]
        /\ UNCHANGED files
  /\ UNCHANGED <<users, dbUp, nextUid, clock, entries>>
  /\ GeoUnchanged

\* await supabase.from('entries').insert({ text, user_id }).select().single(),
\* the response, and finally
AnalyzeInsert(i) ==
  /\ i \in DOMAIN areqs
  /\ areqs[i].pc = "insert"
  /\ LET r == areqs[i]
         data == EntryRow(Len(entries) + 1, Val(r.text), Val(r.userId), clock)
         ok == [r EXCEPT !.pc = "done", !.status = 200, !.rows = @ + 1,
                         !.dbAtRoute = Some(TRUE),
                         !.json = Some([text |-> Val(r.text), id |-> data.id,
                                        created_at |-> data.created_at])]
         failed == [AnalyzeFailed(r, DbFault) EXCEPT !.dbAtRoute = Some(FALSE)]
     IN IF dbUp
        THEN /\ entries' = Append(entries, data)
             /\ clock' = clock + 1
             /\ areqs' = [areqs EXCEPT ![i] = ok]
             /\ files' = Finally(files, ok)
        ELSE /\ areqs' = [areqs EXCEPT ![i] = failed]
             /\ files' = Finally(files, failed)
             /\ UNCHANGED <<entries, clock>>
  /\ UNCHANGED <<users, dbUp, nextUid>>
  /\ GeoUnchanged

\* A select that forgets .eq('user_id', ...)
AllEntries(table, uid) == table

\* .from('entries').select('*').eq('user_id', req.userId)
UserEntries(table, uid) == Pick(table, {k \in DOMAIN table : table[k].user_id = uid})

RECURSIVE InsertDescending(_, _)
InsertDescending(sorted, x) ==
  IF sorted = <<>> THEN <<x>>
  ELSE IF x.created_at > Head(sorted).created_at THEN <<x>> \o sorted
  ELSE <<Head(sorted)>> \o InsertDescending(Tail(sorted), x)

RECURSIVE order(_)
\* .order('created_at', { ascending: false })
order(rows) ==
  IF rows = <<>> THEN <<>> ELSE InsertDescending(order(Tail(rows)), Head(rows))

\* app.get('/api/entries')
Entries(i) ==
  /\ i \in DOMAIN areqs
  /\ areqs[i].pc = "select"
  /\ LET r == areqs[i] IN
     areqs' = [areqs EXCEPT ![i] =
       IF dbUp
       THEN [r EXCEPT !.pc = "done", !.status = 200, !.dbAtRoute = Some(TRUE),
                      !.seen = Len(entries),
                      !.json = Some(order(UserEntries(entries, Val(r.userId))))]
       ELSE [r EXCEPT !.pc = "done", !.status = 500, !.error = DbFault,
                      !.dbAtRoute = Some(FALSE)]]
  /\ UNCHANGED <<users, dbUp, nextUid, clock>>
  /\ JournalUnchanged
  /\ GeoUnchanged

\* The entries two identities created earlier have made so far
EarlierEntries ==
  <<EntryRow(1, Transcript, 1, 3), EntryRow(2, Transcript, 2, 4),
    EntryRow(3, Transcript, 1, 5)>>

InitJournal ==
  /\ facilities = <<>>
  /\ greqs = <<>>
  /\ hav = Null
  /\ users = {UserRow(1, Null, Some(1), Null), UserRow(2, Null, Some(2), Null)}
  /\ nextUid = 2
  /\ entries = EarlierEntries
  /\ clock = 6
  /\ files = {}
  /\ dbUp \in BOOLEAN
  /\ areqs = <<>>

NextJournal ==
  \/ \E cookie \in {Null, Some(1), Some(2)} :
       \/ \E image \in BOOLEAN : Enter(AnalyzeRequest(cookie, image))
       \/ Enter(EntriesRequest(cookie))
  \/ \E i \in 1..MaxAppReq : Middleware(i)
  \/ \E i \in 1..MaxAppReq : Upload(i)
  \/ \E i \in 1..MaxAppReq : Transcribe(i)
  \/ \E i \in 1..MaxAppReq : AnalyzeInsert(i)
  \/ \E i \in 1..MaxAppReq : Entries(i)
  \/ DbToggle

SpecJournal == InitJournal /\ [][NextJournal]_vars

----------------------------------------------------------------------------
(* Calls of haversine *)

\* A point in Michigan, the point opposite to it on the globe, and New York
Michigan == [lat |-> 43900000, lng |-> -84000000]
MichiganAntipode == [lat |-> -43900000, lng |-> 96000000]
NewYork == [lat |-> 40712800, lng |-> -74006000]

Coordinates == Places \cup {Michigan, MichiganAntipode, NewYork}

\* haversine is called for (a, b), for (b, a) and for (a, a)
HaversineCall(a, b) ==
  [a |-> a, b |-> b, pc |-> "call", ab |-> Null, ba |-> Null, aa |-> Null]

Returned ==
  /\ hav.pc = "call"
  /\ hav' = [hav EXCEPT
       !.pc = "returned",
       !.ab = Some(haversineFormula(hav.a.lat, hav.a.lng, hav.b.lat, hav.b.lng)),
       !.ba = Some(haversineFormula(hav.b.lat, hav.b.lng, hav.a.lat, hav.a.lng)),
       !.aa = Some(haversineFormula(hav.a.lat, hav.a.lng, hav.a.lat, hav.a.lng))]
  /\ UNCHANGED <<facilities, clock, greqs, users, dbUp, nextUid, areqs, entries, files>>

InitHaversine ==
  /\ hav \in {HaversineCall(a, b) : a \in Coordinates, b \in Coordinates}
  /\ facilities = <<>>
  /\ clock = 1
  /\ greqs = <<>>
  /\ users = {}
  /\ dbUp = TRUE
  /\ nextUid = 0
  /\ areqs = <<>>
  /\ entries = <<>>
  /\ files = {}

NextHaversine == Returned

SpecHaversine == InitHaversine /\ [][NextHaversine]_vars

----------------------------------------------------------------------------
(* Claims about 'nearest' (SpecNearest) *)

\* The 'nearest' requests answered with results
NearestAnswered ==
  {i \in DOMAIN greqs :
     /\ greqs[i].body.action = "nearest"
     /\ greqs[i].pc = "done"
     /\ Val(greqs[i].resp).status = 200}

Results(i) == Val(greqs[i].resp).results

\* The position of a returned facility in the repository's order
Position(x) == CHOOSE k \in DOMAIN facilities : facilities[k].facility_id = x.facility_id

\* Region, coordinate and the flags of a set of names sent as true
Satisfies(x, body, names) ==
  /\ x.state = body.state
  /\ ~IsNull(x.lat)
  /\ ~IsNull(x.lng)
  /\ \A k \in names : BodyFlag(body, k) = "true" => k \in x.flags

\* C1 as claimed: every returned facility has the requested region, a
\* coordinate, and is true on every capability attribute the request sent as
\* true, whatever the attribute's name
C1_EveryFlagSentTrue ==
  \A i \in NearestAnswered : \A k \in DOMAIN Results(i) :
    Satisfies(Results(i)[k], greqs[i].body, FlagNames)

\* C1 amended: every returned facility has the requested region, a non-null
\* lat and lng, and is true on every attribute of booleanFilters that the
\* request sent as true
C1_ListedFlagsSentTrue ==
  \A i \in NearestAnswered : \A k \in DOMAIN Results(i) :
    Satisfies(Results(i)[k], greqs[i].body, SeqToSet(booleanFilters))

\* A request with a listed flag sent as true got results, and the table holds
\* a row it did not return
C1_Witness ==
  \E i \in NearestAnswered :
    /\ greqs[i].body.flags["emdr"] = "true"
    /\ Results(i) # <<>>
    /\ Len(Results(i)) < Len(facilities)
    /\ \E k \in DOMAIN facilities : facilities[k].state # greqs[i].body.state
    /\ \E k \in DOMAIN facilities : IsNull(facilities[k].lng)

\* C2: the results are ascending by distance_miles, which is the haversine
\* distance to the geocoded query point rounded to one decimal, and results
\* of equal distance_miles keep the repository's order
C2_SortedStable ==
  \A i \in NearestAnswered :
    LET res == Results(i)
        at == Val(Val(greqs[i].resp).user_coords)
    IN /\ \A k \in DOMAIN res :
            res[k].distance_miles =
              (haversine(at.lat, at.lng, Val(res[k].lat), Val(res[k].lng)) + 5000) \div 10000
       /\ \A k, l \in DOMAIN res :
            k < l =>
              /\ res[k].distance_miles <= res[l].distance_miles
              /\ res[k].distance_miles = res[l].distance_miles
                   => Position(res[k]) < Position(res[l])

\* Three results: two of equal distance_miles whose distances differ before
\* rounding, the farther one first, and a third one farther away
C2_Witness ==
  \E i \in NearestAnswered :
    LET res == Results(i)
        at == Val(Val(greqs[i].resp).user_coords)
    IN /\ Len(res) = 3
       /\ res[1].distance_miles = res[2].distance_miles
       /\ haversine(at.lat, at.lng, Val(res[1].lat), Val(res[1].lng))
            > haversine(at.lat, at.lng, Val(res[2].lat), Val(res[2].lng))
       /\ res[2].distance_miles < res[3].distance_miles

\* C3 as claimed: a limit of 0 or below yields empty results
C3_NonPositiveLimitEmpty ==
  \A i \in NearestAnswered :
    (~IsNull(greqs[i].body.limit) /\ Val(greqs[i].body.limit) <= 0)
      => Results(i) = <<>>

\* The rows of the table that match a request
Matching(body) ==
  {k \in DOMAIN facilities : Satisfies(facilities[k], body, SeqToSet(booleanFilters))}

\* distance_miles of row k from a point, then its position: the sort order
Before(at, k, l) ==
  LET dk == MathRound10(haversine(at.lat, at.lng, Val(facilities[k].lat), Val(facilities[k].lng)))
      dl == MathRound10(haversine(at.lat, at.lng, Val(facilities[l].lat), Val(facilities[l].lng)))
  IN dk < dl \/ (dk = dl /\ k < l)

\* C4: with a positive limit L (30 when omitted) the results are the first
\* min(L, n) of the n matching facilities in distance order: that many, each
\* matching, none twice, and every matching facility left out comes after
\* every one returned
C4_FirstL ==
  \A i \in NearestAnswered :
    LET body == greqs[i].body
        res == Results(i)
        at == Val(Val(greqs[i].resp).user_coords)
        L == IF IsNull(body.limit) THEN 30 ELSE Val(body.limit)
        returned == {Position(res[k]) : k \in DOMAIN res}
    IN L > 0 =>
         /\ Len(res) = Min(L, Cardinality(Matching(body)))
         /\ Cardinality(returned) = Len(res)
         /\ returned \subseteq Matching(body)
         /\ \A k \in returned : \A l \in Matching(body) \ returned : Before(at, k, l)

\* A limit of 2 cut three matching facilities down to the two nearest
C4_Witness ==
  \E i \in NearestAnswered :
    /\ greqs[i].body.limit = Some(2)
    /\ Cardinality(Matching(greqs[i].body)) = 3
    /\ Len(Results(i)) = 2

----------------------------------------------------------------------------
(* Claims about 'facility' (SpecFacility) *)

FacilityRequests == {i \in DOMAIN greqs : greqs[i].body.action = "facility"}

Done(i) == greqs[i].pc = "done"
Resp(i) == Val(greqs[i].resp)
Target(i) == greqs[i].body.facility_id

\* The lookup of request i read a row without a coordinate
SawNoCoordinate(i) ==
  /\ ~IsNull(greqs[i].existing)
  /\ IsNull(Val(greqs[i].existing).lat) \/ IsNull(Val(greqs[i].existing).lng)

\* The lookup of request i read a row that carries a coordinate
SawCoordinate(i) ==
  /\ ~IsNull(greqs[i].existing)
  /\ ~IsNull(Val(greqs[i].existing).lat)
  /\ ~IsNull(Val(greqs[i].existing).lng)

\* Request j arrived after request i was answered, both name the same
\* facility, i found it without a coordinate and succeeded, and no other
\* request wrote to that facility
Sequential(i, j) ==
  /\ i \in FacilityRequests /\ j \in FacilityRequests
  /\ i \in greqs[j].after
  /\ Target(i) = Target(j)
  /\ SawNoCoordinate(i)
  /\ Resp(i).status = 200
  /\ \A k \in FacilityRequests \ {i, j} : greqs[k].wrote => Target(k) # Target(i)

\* C5: of two sequential requests for a facility that had no coordinate, the
\* first succeeding, the second (its lookup served by the datastore) returns
\* the lat/lng the first returned and stored, marked cached, and the provider
\* is called once over the two
C5_SecondFromCache ==
  \A i, j \in FacilityRequests :
    (Sequential(i, j) /\ ~IsNull(greqs[j].existing)) =>
      /\ Done(j)
      /\ Resp(j).status = 200
      /\ Resp(j).lat = Resp(i).lat /\ Resp(j).lng = Resp(i).lng
      /\ ~IsNull(Resp(j).lat) /\ ~IsNull(Resp(j).lng)
      /\ Resp(j).cached = Some(TRUE)
      /\ Resp(i).cached = Some(FALSE)
      /\ greqs[i].calls + greqs[j].calls = 1

\* Both requests of such a pair are answered
C5_Witness ==
  \E i, j \in FacilityRequests :
    /\ Sequential(i, j)
    /\ Done(j)
    /\ Resp(j).status = 200
    /\ greqs[i].body.address # greqs[j].body.address

\* C6: a request whose lookup finds a stored coordinate answers exactly that
\* coordinate, marked cached, with no provider call and no write; and a
\* response carries a coordinate only if the lookup found it stored or
\* geocodeAddress returned it to this very request
C6_CacheIsAuthoritative ==
  \A i \in FacilityRequests :
    /\ SawCoordinate(i) =>
         /\ Done(i)
         /\ Resp(i).status = 200
         /\ Resp(i).lat = Val(greqs[i].existing).lat
         /\ Resp(i).lng = Val(greqs[i].existing).lng
         /\ Resp(i).cached = Some(TRUE)
         /\ greqs[i].calls = 0
         /\ ~greqs[i].wrote
    /\ (Done(i) /\ (~IsNull(Resp(i).lat) \/ ~IsNull(Resp(i).lng))) =>
         \/ SawCoordinate(i)
         \/ /\ ~IsNull(greqs[i].env)
            /\ Val(greqs[i].env).status = "OK"
            /\ Val(greqs[i].env).apiKey
            /\ greqs[i].calls = 1
            /\ Resp(i).lat = Some(Val(greqs[i].coords).lat)
            /\ Resp(i).lng = Some(Val(greqs[i].coords).lng)
            /\ Resp(i).cached = Some(FALSE)

\* A cache hit on the row that was geocoded from the start, and a cache hit
\* on a row another request geocoded
C6_Witness ==
  /\ \E i \in FacilityRequests :
       SawCoordinate(i) /\ Target(i) = Some(2) /\ Resp(i).cached = Some(TRUE)
  /\ \E i \in FacilityRequests :
       ~SawCoordinate(i) /\ Done(i) /\ Resp(i).status = 200

\* lat, lng and geocoded_at of a row are all null or all set
Whole(row) ==
  (IsNull(row.lat) = IsNull(row.lng)) /\ (IsNull(row.lng) = IsNull(row.geocoded_at))

\* C7, in every state: a request answered with an error has not written, and
\* the row it found without a coordinate is as it found it when no other
\* request wrote; an unknown id is answered 404 with no provider call; and a
\* row is as it started or has lat, lng and geocoded_at all set
C7_ErrorsLeaveRecord ==
  /\ \A i \in FacilityRequests :
       /\ (Done(i) /\ Resp(i).status # 200) => ~greqs[i].wrote
       /\ (Done(i) /\ Resp(i).status # 200 /\ SawNoCoordinate(i)
             /\ \A k \in FacilityRequests \ {i} : ~greqs[k].wrote)
            => \A k \in DOMAIN facilities :
                 Some(facilities[k].facility_id) = Target(i) =>
                   /\ facilities[k].lat = Val(greqs[i].existing).lat
                   /\ facilities[k].lng = Val(greqs[i].existing).lng
                   /\ IsNull(facilities[k].geocoded_at)
       /\ (~IsNull(Target(i)) /\ Val(Target(i)) \notin DOMAIN facilities
             /\ greqs[i].body.address # "")
            => /\ greqs[i].calls = 0
               /\ Done(i) => Resp(i).status = 404
  /\ \A k \in DOMAIN facilities :
       facilities[k] = CacheRow(k) \/ (Whole(facilities[k]) /\ ~IsNull(facilities[k].lat))

\* Requests for the never-geocoded row 1 failed in the geocoder and in the
\* update, the row is still without a coordinate, and an unknown id was
\* answered
C7_Witness ==
  /\ \E i \in FacilityRequests :
       Done(i) /\ Resp(i).status = 500 /\ Target(i) = Some(1) /\ greqs[i].calls = 1
         /\ IsNull(greqs[i].coords)
  /\ \E i \in FacilityRequests :
       Done(i) /\ Resp(i).status = 500 /\ Target(i) = Some(1) /\ ~IsNull(greqs[i].coords)
  /\ IsNull(facilities[1].lat)

----------------------------------------------------------------------------
(* Claims about geocodeAddress (SpecUser) *)

\* The requests that called geocodeAddress
Geocoding == {i \in DOMAIN greqs : ~IsNull(greqs[i].env)}

\* The failure class of a provider answer, "" when the call succeeds
FailureClass(env) ==
  IF ~env.apiKey THEN "ConfigurationError"
  ELSE IF ~env.reachable \/ env.http < 200 \/ env.http > 299 THEN "TransientServiceError"
  ELSE IF env.status = "REQUEST_DENIED" THEN "RequestDenied"
  ELSE IF env.status = "ZERO_RESULTS" THEN "NoResult"
  ELSE IF env.status # "OK" THEN "ProviderError"
  ELSE ""

\* C8: geocodeAddress returns a coordinate exactly when the key is set, the
\* transport succeeded and the status is OK; without the key it fails with no
\* fetch; outcomes of two different failure classes differ, as do those of
\* two other statuses; ZERO_RESULTS gives no coordinate
C8_FailureTaxonomy ==
  /\ \A i \in Geocoding :
       LET env == Val(greqs[i].env) IN
       /\ ~IsNull(greqs[i].coords) <=> FailureClass(env) = ""
       /\ FailureClass(env) # "" =>
            /\ Done(i)
            /\ Resp(i).status = 500
            /\ Resp(i).error # ""
            /\ IsNull(Resp(i).lat) /\ IsNull(Resp(i).lng)
       /\ FailureClass(env) = "" => greqs[i].coords = Some(ProviderLocation(greqs[i].body.query))
       /\ greqs[i].calls = (IF env.apiKey THEN 1 ELSE 0)
  /\ \A i, j \in Geocoding :
       LET ei == Val(greqs[i].env)
           ej == Val(greqs[j].env)
       IN (FailureClass(ei) # FailureClass(ej)
             \/ (FailureClass(ei) = "ProviderError" /\ ei.status # ej.status))
            => greqs[i].resp # greqs[j].resp

\* Two failures of different classes side by side, one of them ZERO_RESULTS
C8_Witness ==
  \E i, j \in Geocoding :
    /\ FailureClass(Val(greqs[i].env)) = "NoResult"
    /\ FailureClass(Val(greqs[j].env)) = "ConfigurationError"
    /\ Done(i) /\ Done(j)

----------------------------------------------------------------------------
(* Claims about the express server (SpecApp) *)

\* The requests the identity middleware has handled
Identified == {i \in DOMAIN areqs : areqs[i].pc # "middleware"}

\* Request i sends back the uid cookie that the response to request k set
Replays(i, k) ==
  /\ k \in areqs[i].after
  /\ ~IsNull(areqs[k].setCookie)
  /\ areqs[i].cookie = areqs[k].setCookie

\* C9: a request without a uid cookie gets an identity and a cookie carrying
\* it; two such requests get different identities; a request replaying an
\* issued cookie gets no cookie and the identity of the request that issued it
C9_Identity ==
  \A i \in Identified :
    /\ ~IsNull(areqs[i].userId)
    /\ IsNull(areqs[i].cookie) =>
         /\ areqs[i].setCookie = areqs[i].userId
         /\ \A j \in Identified \ {i} :
              IsNull(areqs[j].cookie) => areqs[j].userId # areqs[i].userId
    /\ \A k \in DOMAIN areqs :
         Replays(i, k) =>
           /\ IsNull(areqs[i].setCookie)
           /\ areqs[i].userId = areqs[k].userId

\* A cookie-less request was answered and a second request replayed its cookie
C9_Witness ==
  \E i, k \in Identified :
    /\ Replays(i, k)
    /\ IsNull(areqs[k].cookie)
    /\ areqs[i].pc = "done"

ValidName(name) == name.type = "string" /\ trim(name.chars) # <<>>

\* The answered POSTs with a valid name whose datastore call was served, made
\* under an identity the middleware issued
ServedPosts ==
  {i \in DOMAIN areqs :
     /\ areqs[i].method = "POST"
     /\ areqs[i].pc = "done"
     /\ ValidName(areqs[i].name)
     /\ areqs[i].dbAtRoute = Some(TRUE)
     /\ \E k \in DOMAIN areqs : areqs[k].setCookie = areqs[i].userId}

\* No other valid POST of the same identity may have come later than i
LatestPost(i) ==
  \A j \in DOMAIN areqs \ {i} :
    (areqs[j].method = "POST" /\ areqs[j].userId = areqs[i].userId /\ ValidName(areqs[j].name))
      => (j \in areqs[i].after)

\* C10 as claimed: a POST with a missing or blank name is answered 400; after
\* a POST with a non-blank name served by the datastore the users table holds
\* a row of that identity with the trimmed name, and a later GET served by the
\* datastore returns that name
C10_PostMeUpserts ==
  /\ \A i \in DOMAIN areqs :
       (areqs[i].method = "POST" /\ areqs[i].pc = "done" /\ ~ValidName(areqs[i].name))
         => areqs[i].status = 400
  /\ \A i \in ServedPosts :
       LatestPost(i) =>
         /\ \E row \in users :
              /\ row.id = Val(areqs[i].userId)
              /\ row.name = Some(trim(areqs[i].name.chars))
         /\ \A g \in DOMAIN areqs :
              (/\ areqs[g].method = "GET"
               /\ areqs[g].pc = "done"
               /\ areqs[g].userId = areqs[i].userId
               /\ i \in areqs[g].after
               /\ areqs[g].dbAtRoute = Some(TRUE))
                => Val(areqs[g].json).name = Some(trim(areqs[i].name.chars))

----------------------------------------------------------------------------
(* Claims about /api/distance (SpecDistance) *)

\* The /api/distance requests that passed the validation and whose Distance
\* Matrix fetch delivered a body that parsed
PastMatrix ==
  {i \in DOMAIN areqs :
     areqs[i].path = "/api/distance" /\ areqs[i].answers.matrix = "json"}

\* What step 1 obtained, as the response carries it
DrivingAsObtained(r) ==
  /\ Val(r.json).driving_distance =
       (IF IsNull(r.driving) THEN Null ELSE Some(Val(r.driving).distance))
  /\ Val(r.json).driving_duration =
       (IF IsNull(r.driving) THEN Null ELSE Some(Val(r.driving).duration))

\* A geocode call that completed without a coordinate
NoCoordinate(body, coords) == body # "" /\ IsNull(coords)

C12_DrivingIffStatusOk ==
  \A i \in PastMatrix :
    LET r == areqs[i] IN
    /\ (r.pc = "done" /\ r.status = 200) =>
         LET j == Val(r.json) IN
         /\ j.status = r.elementStatus
         /\ IF r.elementStatus = Some("OK")
            THEN ~IsNull(j.driving_distance) /\ ~IsNull(j.driving_duration)
            ELSE IsNull(j.driving_distance) /\ IsNull(j.driving_duration)
    /\ r.elementStatus # Some("OK") =>
         /\ r.pc = "done" => (r.status = 200 \/ Threw(r.answers.origin) \/ Threw(r.answers.dest))
         /\ r.pc # "done" => r.pc = "geocodes"

\* A 200 response with a straight-line distance and null driving fields for a
\* pair the road-distance service reported ZERO_RESULTS for
C12_Witness ==
  \E i \in PastMatrix :
    LET r == areqs[i] IN
    /\ r.pc = "done" /\ r.status = 200
    /\ r.elementStatus = Some("ZERO_RESULTS")
    /\ IsNull(Val(r.json).driving_distance) /\ IsNull(Val(r.json).driving_duration)
    /\ ~IsNull(Val(r.json).straight_miles)

----------------------------------------------------------------------------
(* Claims about /api/analyze and /api/entries (SpecJournal) *)

AnalyzeRequests == {i \in DOMAIN areqs : areqs[i].path = "/api/analyze"}

\* C13: a POST /api/analyze without a file is answered 400; one with a file is
\* answered 200 with text, id and created_at of the inserted entry, or 500 with
\* an error message, and once it is answered its temporary file, which existed
\* while the transcription and the insert were awaited, no longer exists
C13_TemporaryFileRemoved ==
  \A i \in AnalyzeRequests :
    LET r == areqs[i] IN
    /\ (~r.image /\ r.pc \notin {"middleware", "upload"}) =>
         (r.pc = "done" /\ r.status = 400 /\ FilePath(i) \notin files)
    /\ (r.image /\ r.pc \in {"transcribe", "insert"}) => FilePath(i) \in files
    /\ (r.image /\ r.pc = "done") =>
         /\ FilePath(i) \notin files
         /\ r.status \in {200, 500}
         /\ r.status = 500 => r.error # ""
         /\ r.status = 200 =>
              \E n \in DOMAIN entries :
                Val(r.json) = [text |-> entries[n].text, id |-> entries[n].id,
                               created_at |-> entries[n].created_at]

\* Two uploads, one answered 500 and one answered 200, and no file left
C13_Witness ==
  \E i, k \in AnalyzeRequests :
    /\ areqs[i].image /\ areqs[i].pc = "done" /\ areqs[i].status = 500
    /\ ~IsNull(areqs[i].filePath)
    /\ areqs[k].image /\ areqs[k].pc = "done" /\ areqs[k].status = 200
    /\ files = {}

\* C14: a 200 response of GET /api/entries under identity U lists exactly the
\* rows the entries table held for user_id U when it was read, most recent
\* first; every row inserted by a POST /api/analyze carries the identity that
\* request ran under
C14_OwnEntriesMostRecentFirst ==
  /\ \A g \in DOMAIN areqs :
       LET r == areqs[g] IN
       (r.path = "/api/entries" /\ r.pc = "done" /\ r.status = 200) =>
         LET j == Val(r.json)
             own == {n \in 1..r.seen : entries[n].user_id = Val(r.userId)}
         IN /\ SeqToSet(j) = {entries[n] : n \in own}
            /\ Len(j) = Cardinality(own)
            /\ \A a, b \in DOMAIN j : a < b => j[a].created_at > j[b].created_at
  /\ \A n \in DOMAIN entries :
       n > Len(EarlierEntries) =>
         \E k \in AnalyzeRequests :
           /\ areqs[k].pc = "done" /\ areqs[k].status = 200
           /\ Val(areqs[k].json).id = entries[n].id
           /\ Some(entries[n].user_id) = areqs[k].userId

\* Identity 1 reads its two entries, most recent first, after identity 2 has
\* added an entry
C14_Witness ==
  \E g, k \in DOMAIN areqs :
    /\ areqs[k].path = "/api/analyze" /\ areqs[k].status = 200
    /\ areqs[k].userId = Some(2)
    /\ k \in areqs[g].after
    /\ areqs[g].path = "/api/entries" /\ areqs[g].pc = "done" /\ areqs[g].status = 200
    /\ areqs[g].userId = Some(1)
    /\ Len(Val(areqs[g].json)) = 2
    /\ Val(areqs[g].json)[1].id = 3 /\ Val(areqs[g].json)[2].id = 1

----------------------------------------------------------------------------
(* Claims about haversine (SpecHaversine) *)

\* x === y of two numbers: NaN equals nothing, itself included
StrictEquals(x, y) == x # NaN /\ y # NaN /\ x = y

\* x < 0 of a number: false for NaN
Negative(x) == x # NaN /\ x < 0

\* C15 as claimed: for all coordinate pairs A, B the distance from A to B
\* equals the distance from B to A, the distance from A to A equals 0, and no
\* distance is negative
C15_SymmetricZeroOnDiagonal ==
  hav.pc = "returned" =>
    /\ StrictEquals(Val(hav.ab), Val(hav.ba))
    /\ StrictEquals(Val(hav.aa), 0)
    /\ ~Negative(Val(hav.ab))

\* C15 for the pairs that are not opposite points of the globe
C15_ExceptAntipodes ==
  (hav.pc = "returned" /\ {hav.a, hav.b} # {Michigan, MichiganAntipode}) =>
    /\ StrictEquals(Val(hav.ab), Val(hav.ba))
    /\ StrictEquals(Val(hav.aa), 0)
    /\ ~Negative(Val(hav.ab))

----------------------------------------------------------------------------
(* Claims about overlapping 'facility' requests (SpecFacility) *)

HoldsCoordinate(row) == ~IsNull(row.lat) /\ ~IsNull(row.lng)

\* The row of the table that request i names, if any
TargetRows(i) ==
  {k \in DOMAIN facilities : HasFacilityId(facilities[k], Val(Target(i)))}

\* C16 as claimed: under every interleaving of 'facility' requests no step
\* changes the lat or lng of a record that holds a coordinate, and no step
\* calls the provider for a facility whose record holds a coordinate
C16_CoordinateCreatedOnce ==
  [][ /\ \A k \in DOMAIN facilities :
           HoldsCoordinate(facilities[k]) =>
             (facilities'[k].lat = facilities[k].lat /\ facilities'[k].lng = facilities[k].lng)
      /\ \A i \in DOMAIN greqs :
           greqs'[i].calls > greqs[i].calls =>
             \A k \in TargetRows(i) : ~HoldsCoordinate(facilities[k]) ]_vars

\* Requests i and j name the same facility, each was received before the
\* other was answered, and both have stored a coordinate and been answered
Raced(i, j) ==
  /\ i \in FacilityRequests /\ j \in FacilityRequests /\ i # j
  /\ Target(i) = Target(j)
  /\ i \notin greqs[j].after /\ j \notin greqs[i].after
  /\ Done(i) /\ Done(j)
  /\ greqs[i].wrote /\ greqs[j].wrote

\* C17 as claimed: two concurrent 'facility' requests for the same facility
\* that had never been geocoded return the same coordinate, and the record
\* holds, after both, the coordinate returned to each of them
C17_RaceIsBenign ==
  \A i, j \in DOMAIN greqs :
    Raced(i, j) =>
      /\ Resp(i).lat = Resp(j).lat /\ Resp(i).lng = Resp(j).lng
      /\ \A k \in TargetRows(i) :
           facilities[k].lat = Resp(i).lat /\ facilities[k].lng = Resp(i).lng

\* C17 for requests that carry the same address
C17_SameAddress ==
  \A i, j \in DOMAIN greqs :
    (Raced(i, j) /\ greqs[i].body.address = greqs[j].body.address) =>
      /\ Resp(i).lat = Resp(j).lat /\ Resp(i).lng = Resp(j).lng
      /\ \A k \in TargetRows(i) :
           facilities[k].lat = Resp(i).lat /\ facilities[k].lng = Resp(i).lng

----------------------------------------------------------------------------
(* Claims about 'user' and 'nearest' (SpecQueries) *)

\* The 'user' and 'nearest' requests that passed the validation
Queries ==
  {i \in DOMAIN greqs :
     /\ greqs[i].body.action \in {"user", "nearest"}
     /\ ~(greqs[i].pc = "done" /\ Resp(i).status = 400)}

\* C18: 'user' and 'nearest' requests leave every facility record as it was,
\* whether they succeed or fail; each of them goes through geocodeAddress for
\* its query, which fetches from the provider whenever the API key is set,
\* also when the same query or the same place was resolved before, and the
\* coordinate it answers with is the one the provider returned
C18_QueriesNeverCache ==
  /\ facilities = [k \in 1..MaxFac |-> CacheRow(k)]
  /\ \A i \in Queries :
       LET r == greqs[i] IN
       /\ ~r.wrote
       /\ r.pc # "geocode" =>
            /\ ~IsNull(r.env)
            /\ r.calls = (IF Val(r.env).apiKey THEN 1 ELSE 0)
       /\ (r.pc = "done" /\ Resp(i).status = 200) =>
            /\ Val(r.env) = Env(TRUE, TRUE, 200, "OK", Null)
            /\ LET at == IF r.body.action = "user"
                         THEN [lat |-> Val(Resp(i).lat), lng |-> Val(Resp(i).lng)]
                         ELSE Val(Resp(i).user_coords)
               IN at = ProviderLocation(r.body.query)

\* The same place is asked for twice, the second time after the first was
\* answered, by a 'user' and by a 'nearest' request, and the provider is
\* called both times
C18_Witness ==
  \E i, j \in Queries :
    /\ i \in greqs[j].after
    /\ greqs[i].body.action = "user" /\ greqs[j].body.action = "nearest"
    /\ greqs[i].body.query = greqs[j].body.query
    /\ Resp(i).status = 200
    /\ Done(j) /\ Resp(j).status = 200
    /\ greqs[i].calls = 1 /\ greqs[j].calls = 1
    /\ Resp(j).results # <<>>

----------------------------------------------------------------------------
(* Claims about validation errors (SpecApp) and about the order of the
   outbound calls of /api/distance (SpecDistance) *)

\* C19 as claimed: a request answered with a validation error (4xx) has had no
\* side effect: no datastore row was inserted or updated and no outbound call
\* was made while it was handled
C19_ValidationHasNoSideEffect ==
  \A i \in DOMAIN areqs :
    (areqs[i].pc = "done" /\ areqs[i].status >= 400 /\ areqs[i].status < 500) =>
      /\ areqs[i].rows = 0
      /\ areqs[i].fetches = 0
      /\ \A row \in users : Some(row.id) # areqs[i].setCookie

\* C19 for the edge function: a request answered 400 has called neither the
\* provider nor the datastore
C19_EdgeValidationHasNoSideEffect ==
  \A i \in DOMAIN greqs :
    (Done(i) /\ Resp(i).status = 400) =>
      /\ greqs[i].calls = 0 /\ IsNull(greqs[i].env)
      /\ IsNull(greqs[i].existing) /\ ~greqs[i].wrote

\* C20 as claimed: the geocode calls of a route-distance lookup are started
\* without waiting for the road-distance call, so that while the road-distance
\* call is in flight the two geocode calls have been issued as well
C20_CallsIssuedConcurrently ==
  \A i \in DOMAIN areqs :
    areqs[i].matrix = "inflight" =>
      (areqs[i].geoOrigin # "idle" /\ areqs[i].geoDest # "idle")

\* The three outbound calls of one lookup are never in flight together
C20_NeverAllInFlight ==
  \A i \in DOMAIN areqs :
    ~(areqs[i].matrix = "inflight" /\ areqs[i].geoOrigin = "inflight"
        /\ areqs[i].geoDest = "inflight")

\* The 200 response of a lookup is sent after all three calls have completed
C20_JoinedBeforeResponding ==
  \A i \in DOMAIN areqs :
    (areqs[i].path = "/api/distance" /\ areqs[i].pc = "done" /\ areqs[i].status = 200) =>
      (areqs[i].matrix = "done" /\ areqs[i].geoOrigin = "done" /\ areqs[i].geoDest = "done")

====
